---- MODULE Spec2Model ----
(***************************************************************************)
(* Verification model of notes_to_blog: the 15-step BlogPostCrew pipeline  *)
(* (src/crews/blog_post_crew.py), the batch driver (main.py), and the      *)
(* OpenRouter resilience primitives: RateLimiter and the retry loop        *)
(* (src/services/openrouter_service.py), the BraveSearchCache, the three   *)
(* adapters generate_text, generate_image and search, and the              *)
(* ServiceRegistry (src/services).                                         *)
(***************************************************************************)
EXTENDS Integers, Sequences, FiniteSets, TLC

VARIABLES
    \* ---- BlogPostCrew -------------------------------------------------
    workflow_steps,   \* self.workflow_steps: sequence of WorkflowStep records
    pc,               \* position of the caller inside create_blog_post
    cur,              \* number of the step create_blog_post is at
    locals,           \* the local variable bound by each step (<<>> = unbound)
    args,             \* the arguments handed to each step's work in this call
    note,             \* notes_content of the current call
    outcome,          \* how the last create_blog_post call ended
    thrown,           \* the exception raised inside the try block, and where
    runNo             \* number of create_blog_post calls made on this crew

crewVars == <<workflow_steps, pc, cur, locals, args, note, outcome, thrown, runNo>>

VARIABLES
    \* ---- process_batch (main.py) ---------------------------------------
    files,            \* the note files found in the inbox, by what befalls each
    b_pc,             \* "start", then how process_batch ended
    attempted,        \* the files the loop has attempted, in order
    reports,          \* what was reported for each attempted file
    b_exc             \* the exception that left process_batch, if any

batchVars == <<files, b_pc, attempted, reports, b_exc>>

VARIABLES
    \* ---- RateLimiter ----------------------------------------------------
    max_requests,     \* self.max_requests
    time_window,      \* self.time_window
    requests,         \* self.requests: the admitted timestamps retained
    clock,            \* time.time()
    calls,            \* every acquire() made so far: time, result, oldest entry
    \* ---- acquire() run by several threads -------------------------------
    t_pc,             \* where each thread stands inside acquire()
    t_now,            \* each thread's local now
    t_tmp,            \* each thread's filtered list, not yet stored
    t_calls,          \* acquire() calls each thread has started
    admitted          \* the timestamps of all calls that returned True

limVars == <<max_requests, time_window, requests, clock, calls>>

thrVars == <<t_pc, t_now, t_tmp, t_calls, admitted>>

VARIABLES
    \* ---- OpenRouterService._make_request_with_retry ---------------------
    max_retries,      \* config.crewai.agent_max_retries
    attempt,          \* the loop variable
    retry_delay,      \* the current backoff
    r_pc,             \* "loop", "returned" or "raised"
    posts,            \* the answer to every client.post issued so far
    sleeps,           \* the duration of every asyncio.sleep so far
    r_exc             \* the exception propagated to the caller

retryVars == <<max_retries, attempt, retry_delay, r_pc, posts, sleeps, r_exc>>

VARIABLES
    \* ---- BraveSearchCache ---------------------------------------------
    cache_max_size,   \* self.max_size
    cache_ttl,        \* self.ttl
    cache,            \* self.cache: the entries, in dict (insertion) order
    c_last,           \* the last cache operation: arguments, cache before, result
    c_latest,         \* per query, the value stored by the latest set that returned
    c_scn             \* how far the calls so far follow Scenario (-1: they do not)

cacheVars == <<cache_max_size, cache_ttl, cache, c_last, c_latest, c_scn>>

VARIABLES
    \* ---- the adapters: one call at a time --------------------------------
    api_key,          \* OpenRouterService.api_key of the constructed service
    a_svc,            \* the adapter called last: "text", "image" or "search"
    a_pc,             \* where the call stands; "idle" between calls
    a_in,             \* the arguments of the call
    a_http,           \* HTTP requests issued by an image or search call
    a_loc,            \* _wait_for_completion: time waited, poll_interval, status
    a_out,            \* what the call handed back
    a_calls,          \* calls made so far
    a_adm             \* rate_limiter.requests at entry, timestamps the call added

adapterVars ==
    <<api_key, a_svc, a_pc, a_in, a_http, a_loc, a_out, a_calls, a_adm>>

VARIABLES
    \* ---- ServiceRegistry -------------------------------------------------
    config,           \* self.config: the credentials and endpoints
    services,         \* self._services: per name <<>> or <<the instance>>
    reg_last          \* the last getter called and the exception it raised

regVars == <<config, services, reg_last>>

VARIABLES
    \* ---- RateLimiter.wait_for_slot ----------------------------------------
    w_pc,             \* "idle", or where the call stands: "acquire", "sleep"
    w_calls,          \* wait_for_slot calls started so far
    w_rec             \* the call's first entry in calls, its sleeps so far

waitVars == <<w_pc, w_calls, w_rec>>

serviceVars == <<cacheVars, adapterVars, regVars, waitVars>>

vars == <<crewVars, batchVars, limVars, thrVars, retryVars, serviceVars>>

-----------------------------------------------------------------------------
(* Bounds *)
MaxRuns == 2

MaxFiles == 3

MaxN == 2

MaxCalls == 4

MaxClock == 4

MaxThreadCalls == 1

MaxRetriesBound == 5

(* Program constants *)
NumSteps == 15

Steps == 1..NumSteps

Range(s) == {s[i] : i \in DOMAIN s}

-----------------------------------------------------------------------------
(* WorkflowStep and the step table of _initialize_workflow_steps *)

StepNames == <<"Input Validation", "Content Analysis", "Title Generation",
               "Description Creation", "Subheading Planning",
               "Research Coordination", "Content Research",
               "Source Validation", "Introduction Writing",
               "Content Expansion", "Conclusion Writing", "Image Planning",
               "Image Generation", "Metadata Creation", "Output Generation">>

\* WorkflowStep(step_number=num, name=name, ...) with the field defaults.
\* start_time / end_time: 0 is None, otherwise the call that stamped it.
\* error_message: "" is None.  result: <<>> is None, <<v>> a stored dict.
WorkflowStep(num, name) ==
    [step_number |-> num, name |-> name, status |-> "pending",
     start_time |-> 0, end_time |-> 0, error_message |-> "", result |-> <<>>]

InitializeWorkflowSteps ==
    [i \in 1..Len(StepNames) |-> WorkflowStep(i, StepNames[i])]

\* Index of the first element of the set I of indices, 0 for None.
First(I) == IF I = {} THEN 0 ELSE CHOOSE i \in I : \A j \in I : i <= j

\* next((s for s in self.workflow_steps if s.step_number == step_number), None)
FirstWithNumber(ws, step_number) ==
    First({i \in DOMAIN ws : ws[i].step_number = step_number})

\* next((s for s in self.workflow_steps if s.status == status), None)
FirstWithStatus(ws, status) ==
    First({i \in DOMAIN ws : ws[i].status = status})

\* _update_step_status(step_number, status, result)
UpdateStepStatus(ws, step_number, status, result, now) ==
    LET i == FirstWithNumber(ws, step_number)
    IN  IF i = 0 THEN ws
        ELSE [ws EXCEPT ![i] =
                [@ EXCEPT
                   !.status = status,
                   !.start_time = IF status = "in_progress" THEN now ELSE @,
                   !.end_time = IF status \in {"completed", "failed"}
                                THEN now ELSE @,
                   !.result = IF status \in {"completed", "failed"}
                                 /\ result # <<>>
                              THEN result ELSE @]]

\* An error handler that marks the step failed but drops str(error).
HandleWorkflowErrorNoMessage(ws, error, now) ==
    LET i == FirstWithStatus(ws, "in_progress")
    IN  IF i = 0 THEN ws
        ELSE [ws EXCEPT ![i] = [@ EXCEPT !.status = "failed",
                                         !.end_time = now]]

\* An error handler that takes the first pending step for the current one.
HandleWorkflowErrorPending(ws, error, now) ==
    LET i == FirstWithStatus(ws, "pending")
    IN  IF i = 0 THEN ws
        ELSE [ws EXCEPT ![i] = [@ EXCEPT !.status = "failed",
                                         !.end_time = now,
                                         !.error_message = error.message]]

\* _handle_workflow_error(error): the first step with status in_progress is
\* marked failed and gets str(error).
HandleWorkflowError(ws, error, now) ==
    LET i == FirstWithStatus(ws, "in_progress")
    IN  IF i = 0 THEN ws
        ELSE [ws EXCEPT ![i] =
                [@ EXCEPT !.status = "failed",
                          !.end_time = now,
                          !.error_message = error.message]]

-----------------------------------------------------------------------------
(* Exceptions: class, str(e), the step_index attribute (0 = no such         *)
(* attribute) and the class of __cause__ ("" = no cause attached).         *)
Exc(class, message) ==
    [class |-> class, message |-> message, step_index |-> 0, cause |-> ""]

NoExc == Exc("", "")

\* Failures execute_task can propagate out of analyze_notes, research_topic,
\* research_subheading and create_image_prompts.
WorkerErrors == {Exc("Exception", "task execution failed"),
                 Exc("TimeoutError", "request timed out")}

\* A create_blog_post that wrapped the failure before raising it.
ReraiseWrapped(e, step_number) ==
    [class |-> "PipelineError", message |-> e.message,
     step_index |-> step_number, cause |-> e.class]

\* `raise` in the except clause of create_blog_post re-raises e unchanged.
Reraise(e, step_number) == e

-----------------------------------------------------------------------------
(* Inputs and opaque values *)

\* notes_content: a note of at least 10 characters, and one that is too short
Notes == {"a valid note", "short"}

\* Note(content=...) : content needs len(strip(content)) >= 10
NoteValid(nc) == nc = "a valid note"

DefaultSubheadings == <<"Introduction", "Main Content", "Conclusion">>

\* What analyze_notes can return: json.loads(result) (a dict with or without
\* the keys, or a JSON value that is no dict), or the JSONDecodeError default.
\* A missing key is <<>>.
Analysis(isdict, title, description, subheadings) ==
    [isdict |-> isdict, title |-> title, description |-> description,
     subheadings |-> subheadings]

Analyses ==
    { Analysis(TRUE, <<"My Topic">>, <<"About X">>, << <<"Basics", "Advanced">> >>),
      Analysis(TRUE, <<"My Topic">>, <<"About X">>, << <<"Basics", "Basics">> >>),
      Analysis(TRUE, <<"My Topic">>, <<"About X">>, << <<"main_topic", "Basics">> >>),
      Analysis(TRUE, <<"My Topic">>, <<"About X">>, << <<>> >>),
      Analysis(TRUE, <<>>, <<"About X">>, <<>>),
      Analysis(TRUE, <<"Generated Title">>, <<"Generated description">>,
               <<DefaultSubheadings>>),
      Analysis(FALSE, <<>>, <<>>, <<>>) }

\* dict.get(key, default)
Get(field, default) == IF field = <<>> THEN default ELSE field[1]

-----------------------------------------------------------------------------
(* The work of each step, as create_blog_post calls it *)

Ret(v) == [ok |-> TRUE, val |-> <<v>>, exc |-> NoExc]

Raise(e) == [ok |-> FALSE, val |-> <<>>, exc |-> e]

\* A create_blog_post whose introduction step also reads expanded_content.
StepInputsBackward(n, nc, L) ==
    CASE n = 1  -> <<nc>>
      [] n = 2  -> <<L[1]>>
      [] n \in {3, 4, 5} -> <<L[2]>>
      [] n = 6  -> <<L[3], L[5]>>
      [] n = 7  -> <<L[5], L[6]>>
      [] n = 8  -> <<L[7]>>
      [] n = 9  -> <<L[3], L[4], L[10]>>
      [] n = 10 -> <<L[5], L[7]>>
      [] n = 11 -> <<L[3], L[10]>>
      [] n = 12 -> <<L[3], L[10], L[5]>>
      [] n = 13 -> <<L[12]>>
      [] n = 14 -> <<L[3], L[4], L[10]>>
      [] n = 15 -> <<L[3], L[4], L[9], L[10], L[11], L[13], L[14]>>

\* The arguments create_blog_post passes to the work of step n, read from
\* the locals L bound so far (each entry <<>> or <<value>>).
StepInputs(n, nc, L) ==
    CASE n = 1  -> <<nc>>                    \* _validate_input(notes_content, ..)
      [] n = 2  -> <<L[1]>>                  \* analyze_notes(validated_notes.content)
      [] n = 3  -> <<L[2]>>                  \* analysis_result.get("title", ..)
      [] n = 4  -> <<L[2]>>                  \* analysis_result.get("description", ..)
      [] n = 5  -> <<L[2]>>                  \* analysis_result.get("subheadings", ..)
      [] n = 6  -> <<L[3], L[5]>>            \* _coordinate_research(title, subheadings)
      [] n = 7  -> <<L[5], L[6]>>            \* _research_content(subheadings, research_data)
      [] n = 8  -> <<L[7]>>                  \* _validate_sources(expanded_research)
      [] n = 9  -> <<L[3], L[4]>>            \* write_introduction(title, description)
      [] n = 10 -> <<L[5], L[7]>>            \* _expand_content(subheadings, expanded_research)
      [] n = 11 -> <<L[3], L[10]>>           \* write_conclusion(title, keys(expanded_content))
      [] n = 12 -> <<L[3], L[10], L[5]>>     \* create_image_prompts(title, content, subheadings)
      [] n = 13 -> <<L[12]>>                 \* generate_images(image_prompts)
      [] n = 14 -> <<L[3], L[4], L[10]>>     \* generate_metadata(title, description, content)
      [] n = 15 -> <<L[3], L[4], L[9], L[10], L[11], L[13], L[14]>>

\* _validate_input: Note(content=notes_content, ...) validates or raises.
ValidateInput(nc) ==
    IF NoteValid(nc)
    THEN {Ret([content |-> nc])}
    ELSE {Raise(Exc("ValidationError",
                    "Note content must be at least 10 characters long"))}

\* analysis_result.get(key, default); a JSON value that is no dict has no .get
AnalysisGet(a, key, default) ==
    IF a.isdict
    THEN {Ret(Get(a[key], default))}
    ELSE {Raise(Exc("AttributeError", "object has no attribute 'get'"))}

\* _coordinate_research: research_data["main_topic"] first, then one
\* assignment per subheading, in list order (a later assignment to the same
\* key replaces the earlier one).
RECURSIVE ResearchEach(_, _, _)
ResearchEach(research_data, subheadings, title) ==
    IF subheadings = <<>> THEN research_data
    ELSE LET sub == Head(subheadings)
             entry == <<"research_subheading", sub, title>>
             keys == DOMAIN research_data \cup {sub}
         IN  ResearchEach([k \in keys |-> IF k = sub THEN entry
                                          ELSE research_data[k]],
                          Tail(subheadings), title)

\* A coordination that keeps no entry for the main topic.
CoordinateResearchNoMain(title, subheadings) ==
    ResearchEach(<<>>, subheadings, title)

CoordinateResearch(title, subheadings) ==
    ResearchEach([k \in {"main_topic"} |-> <<"research_topic", title, "">>],
                 subheadings, title)

\* _research_content: one combined entry per subheading found in research_data
ResearchContent(subheadings, research_data) ==
    [sub \in Range(subheadings) \cap DOMAIN research_data |->
        [main_context |-> research_data["main_topic"],
         subheading_research |-> research_data[sub]]]

\* _validate_sources: every entry extended with validated_sources, citations
ValidateSources(expanded_research) ==
    [sub \in DOMAIN expanded_research |->
        [data |-> expanded_research[sub],
         validated_sources |-> <<"validate_sources", sub>>,
         citations |-> <<"generate_citations", sub>>]]

\* _expand_content: expand_subheading for each subheading that was researched
ExpandContent(subheadings, research_data) ==
    [sub \in Range(subheadings) \cap DOMAIN research_data |->
        <<"expand_subheading", sub, research_data[sub]>>]

\* BlogPost(...) as _generate_final_output constructs it: the model's
\* required fields against the keyword arguments supplied.
BlogPostRequired == {"frontmatter", "content", "introduction", "conclusion",
                     "filename", "output_path"}

BlogPostSupplied == {"frontmatter", "content", "filename", "created_at",
                     "images"}

\* _generate_final_output: FrontMatter(...) validates title, description and
\* tags and may reject them; BlogPost(...) then validates its own fields.
GenerateFinalOutput(in) ==
    {Raise(Exc("ValidationError", "FrontMatter validation failed"))}
    \cup (IF BlogPostRequired \subseteq BlogPostSupplied
          THEN {Ret(<<"BlogPost", in>>)}
          ELSE {Raise(Exc("ValidationError", "BlogPost: Field required"))})

\* Every way the work of step n can end for the arguments in.
WorkOutcomes(n, in) ==
    CASE n = 1  -> ValidateInput(in[1])
      [] n = 2  -> {Ret(a) : a \in Analyses} \cup {Raise(e) : e \in WorkerErrors}
      [] n = 3  -> AnalysisGet(in[1][1], "title", "Generated Blog Post Title")
      [] n = 4  -> AnalysisGet(in[1][1], "description", "Generated description")
      [] n = 5  -> AnalysisGet(in[1][1], "subheadings", DefaultSubheadings)
      [] n = 6  -> {Ret(CoordinateResearch(in[1][1], in[2][1]))}
                      \cup {Raise(e) : e \in WorkerErrors}
      [] n = 7  -> {Ret(ResearchContent(in[1][1], in[2][1]))}
      [] n = 8  -> {Ret(ValidateSources(in[1][1]))}
      [] n = 9  -> {Ret(<<"write_introduction", in[1][1], in[2][1]>>)}
      [] n = 10 -> {Ret(ExpandContent(in[1][1], in[2][1]))}
      [] n = 11 -> {Ret(<<"write_conclusion", in[1][1], DOMAIN in[2][1]>>)}
      [] n = 12 -> {Ret(<<"create_image_prompts", in[1][1], in[2][1], in[3][1]>>)}
                      \cup {Raise(e) : e \in WorkerErrors}
      [] n = 13 -> {Ret(<<"generate_images", in[1][1]>>)}
      [] n = 14 -> {Ret(<<"generate_metadata", in[1][1], in[2][1], in[3][1]>>)}
      [] n = 15 -> GenerateFinalOutput(in)

-----------------------------------------------------------------------------
(* BlogPostCrew: construction and create_blog_post *)

Unbound == [n \in Steps |-> <<>>]

NoOutcome == [kind |-> "none", value |-> <<>>, exc |-> NoExc]

NoThrow == [step |-> 0, exc |-> NoExc]

\* BlogPostCrew.__init__
CrewInit ==
    /\ workflow_steps = InitializeWorkflowSteps
    /\ pc = "idle"
    /\ cur = 0
    /\ locals = Unbound
    /\ args = Unbound
    /\ note = ""
    /\ outcome = NoOutcome
    /\ thrown = NoThrow
    /\ runNo = 0

\* A caller invokes create_blog_post(notes_content) on the crew.
Call(nc) ==
    /\ pc = "idle"
    /\ runNo < MaxRuns
    /\ pc' = "enter"
    /\ cur' = 1
    /\ note' = nc
    /\ locals' = Unbound
    /\ args' = Unbound
    /\ outcome' = NoOutcome
    /\ thrown' = NoThrow
    /\ runNo' = runNo + 1
    /\ UNCHANGED workflow_steps
    /\ UNCHANGED <<batchVars, limVars, thrVars, retryVars, serviceVars>>

\* self._update_step_status(cur, "in_progress"), then the step's work is
\* called with its arguments.
Begin ==
    /\ pc \in {"enter", "next"}
    /\ workflow_steps' = UpdateStepStatus(workflow_steps, cur, "in_progress",
                                          <<>>, runNo)
    /\ args' = [args EXCEPT ![cur] = <<StepInputs(cur, note, locals)>>]
    /\ pc' = "work"
    /\ UNCHANGED <<cur, locals, note, outcome, thrown, runNo>>
    /\ UNCHANGED <<batchVars, limVars, thrVars, retryVars, serviceVars>>

\* The work returns: the local is bound, the step is marked completed with
\* its result; after step 15 the blog post is returned.
Finish ==
    /\ pc = "work"
    /\ \E o \in WorkOutcomes(cur, args[cur][1]) :
          /\ o.ok
          /\ locals' = [locals EXCEPT ![cur] = o.val]
          /\ workflow_steps' = UpdateStepStatus(workflow_steps, cur,
                                                "completed", o.val, runNo)
          /\ IF cur = NumSteps
             THEN /\ outcome' = [kind |-> "returned", value |-> o.val,
                                 exc |-> NoExc]
                  /\ pc' = "idle"
                  /\ cur' = cur
             ELSE /\ outcome' = outcome
                  /\ pc' = "next"
                  /\ cur' = cur + 1
    /\ UNCHANGED <<args, note, thrown, runNo>>
    /\ UNCHANGED <<batchVars, limVars, thrVars, retryVars, serviceVars>>

\* The work raises: except Exception as e: self._handle_workflow_error(e); raise
Fail ==
    /\ pc = "work"
    /\ \E o \in WorkOutcomes(cur, args[cur][1]) :
          /\ ~o.ok
          /\ thrown' = [step |-> cur, exc |-> o.exc]
          /\ workflow_steps' = HandleWorkflowError(workflow_steps, o.exc, runNo)
          /\ outcome' = [kind |-> "raised", value |-> <<>>,
                         exc |-> Reraise(o.exc, cur)]
    /\ pc' = "idle"
    /\ UNCHANGED <<cur, locals, args, note, runNo>>
    /\ UNCHANGED <<batchVars, limVars, thrVars, retryVars, serviceVars>>

-----------------------------------------------------------------------------
(* process_batch (main.py) *)

\* What befalls a note file: _process_file returns None, the orchestrator
\* raises, generate_blog_post_file reports failure, or all goes well.
FileKinds == {"unreadable", "crew_raises", "output_fails", "fine"}

RECURSIVE SeqsUpTo(_, _)
SeqsUpTo(S, n) ==
    IF n = 0 THEN {<<>>}
    ELSE LET shorter == SeqsUpTo(S, n - 1)
         IN  shorter \cup {Append(q, x) : q \in {r \in shorter : Len(r) = n - 1},
                                          x \in S}

\* BlogPostCrew.__init__(self, config, service_registry): two required
\* arguments; process_batch passes BlogPostCrew(config).
CrewInitParams == {"config", "service_registry"}

BatchCrewArgs == {"config"}

\* The public methods BlogPostCrew defines.
CrewMethods == {"create_blog_post", "get_workflow_status", "health_check"}

\* One iteration of the for loop of process_batch: what is reported for the
\* file. Every exception is caught by the except clause of the iteration.
BatchIteration(kind) ==
    IF kind = "unreadable" THEN "failed to process file"
    ELSE IF "process_note" \notin CrewMethods THEN "error: AttributeError"
    ELSE IF kind = "crew_raises" THEN "error: step failed"
    ELSE IF kind = "output_fails" THEN "failed to generate blog post"
    ELSE "processed"

BatchInit ==
    /\ files \in SeqsUpTo(FileKinds, MaxFiles)
    /\ b_pc = "start"
    /\ attempted = <<>>
    /\ reports = <<>>
    /\ b_exc = NoExc

BatchIdle ==
    /\ files = <<>>
    /\ b_pc = "off"
    /\ attempted = <<>>
    /\ reports = <<>>
    /\ b_exc = NoExc

\* process_batch: no files -> typer.Exit; the crew and the output generator
\* are constructed once, before the loop; then one iteration per file.
ProcessBatch ==
    /\ b_pc = "start"
    /\ IF files = <<>>
       THEN /\ b_pc' = "exit"
            /\ UNCHANGED <<attempted, reports, b_exc>>
       ELSE IF BatchCrewArgs # CrewInitParams
       THEN /\ b_pc' = "raised"
            /\ b_exc' = Exc("TypeError",
                  "__init__() missing 1 required positional argument: 'service_registry'")
            /\ UNCHANGED <<attempted, reports>>
       ELSE /\ b_pc' = "done"
            /\ attempted' = files
            /\ reports' = [i \in 1..Len(files) |-> BatchIteration(files[i])]
            /\ b_exc' = b_exc
    /\ UNCHANGED <<files, crewVars, limVars, thrVars, retryVars, serviceVars>>

-----------------------------------------------------------------------------
(* RateLimiter *)

Windows == {2, 3}

NumThreads == 2

Threads == 1..NumThreads

\* [req_time for req_time in self.requests if now - req_time < self.time_window]
Prune(reqs, now, window) ==
    SelectSeq(reqs, LAMBDA req_time : now - req_time < window)

\* A capacity test that lets one request too many through.
AtCapacityOffByOne(reqs, max) == Len(reqs) > max

\* len(self.requests) >= self.max_requests
AtCapacity(reqs, max) == Len(reqs) >= max

Oldest(reqs) == IF reqs = <<>> THEN -1 ELSE reqs[1]

LimInit ==
    /\ max_requests \in 0..MaxN
    /\ time_window \in Windows
    /\ requests = <<>>
    /\ clock = 0
    /\ calls = <<>>

LimIdle ==
    /\ max_requests = 0
    /\ time_window = 0
    /\ requests = <<>>
    /\ clock = 0
    /\ calls = <<>>

ThrIdle ==
    /\ t_pc = [t \in Threads |-> "idle"]
    /\ t_now = [t \in Threads |-> 0]
    /\ t_tmp = [t \in Threads |-> <<>>]
    /\ t_calls = [t \in Threads |-> 0]
    /\ admitted = <<>>

\* Time passes.
Tick ==
    /\ clock < MaxClock
    /\ clock' = clock + 1
    /\ UNCHANGED <<max_requests, time_window, requests, calls>>
    /\ UNCHANGED <<crewVars, batchVars, thrVars, retryVars, serviceVars>>

\* acquire() called on one event loop: the coroutine has no await, so it runs
\* from the first line to the return without another coroutine in between.
Acquire ==
    /\ Len(calls) < MaxCalls
    /\ LET now == clock
           kept == Prune(requests, now, time_window)
           ok == ~AtCapacity(kept, max_requests)
       IN  /\ requests' = IF ok THEN Append(kept, now) ELSE kept
           /\ calls' = Append(calls, [t |-> now, ok |-> ok,
                                      oldest |-> Oldest(requests)])
    /\ UNCHANGED <<max_requests, time_window, clock>>
    /\ UNCHANGED <<crewVars, batchVars, thrVars, retryVars, serviceVars>>

\* acquire() run by thread t (asyncio.run in its own thread, as the CrewAI
\* adapter does): the threads share self.requests and may be switched between
\* any two of the statements.
\* now = time.time(); the list comprehension is evaluated
TPrune(t) ==
    /\ t_pc[t] = "idle"
    /\ t_calls[t] < MaxThreadCalls
    /\ t_calls' = [t_calls EXCEPT ![t] = @ + 1]
    /\ t_now' = [t_now EXCEPT ![t] = clock]
    /\ t_tmp' = [t_tmp EXCEPT ![t] = Prune(requests, clock, time_window)]
    /\ t_pc' = [t_pc EXCEPT ![t] = "store"]
    /\ UNCHANGED <<limVars, admitted, crewVars, batchVars, retryVars, serviceVars>>

\* self.requests = <the filtered list>
TStore(t) ==
    /\ t_pc[t] = "store"
    /\ requests' = t_tmp[t]
    /\ t_pc' = [t_pc EXCEPT ![t] = "check"]
    /\ UNCHANGED <<max_requests, time_window, clock, calls>>
    /\ UNCHANGED <<t_now, t_tmp, t_calls, admitted>>
    /\ UNCHANGED <<crewVars, batchVars, retryVars, serviceVars>>

\* if len(self.requests) >= self.max_requests: return False
TCheck(t) ==
    /\ t_pc[t] = "check"
    /\ t_pc' = [t_pc EXCEPT ![t] = IF AtCapacity(requests, max_requests)
                                   THEN "idle" ELSE "append"]
    /\ UNCHANGED <<limVars, t_now, t_tmp, t_calls, admitted>>
    /\ UNCHANGED <<crewVars, batchVars, retryVars, serviceVars>>

\* self.requests.append(now); return True
TAppend(t) ==
    /\ t_pc[t] = "append"
    /\ requests' = Append(requests, t_now[t])
    /\ admitted' = Append(admitted, t_now[t])
    /\ t_pc' = [t_pc EXCEPT ![t] = "idle"]
    /\ UNCHANGED <<max_requests, time_window, clock, calls>>
    /\ UNCHANGED <<t_now, t_tmp, t_calls>>
    /\ UNCHANGED <<crewVars, batchVars, retryVars, serviceVars>>

-----------------------------------------------------------------------------
(* RateLimiter.wait_for_slot *)

MaxWaitCalls == 3

\* Sleeps followed within one call (a limiter with max_requests = 0 never
\* admits, and its caller sleeps for ever).
MaxSleeps == 4

\* A wait_for_slot that asks once and returns whatever the answer.
WaitLoopOnce(ok) == "idle"

\* while not await self.acquire(): await asyncio.sleep(1)
WaitLoop(ok) == IF ok THEN "idle" ELSE "sleep"

WaitIdle ==
    /\ w_pc = "off"
    /\ w_calls = 0
    /\ w_rec = [first |-> 0, sleeps |-> 0]

WaitInit ==
    /\ w_pc = "idle"
    /\ w_calls = 0
    /\ w_rec = [first |-> 0, sleeps |-> 0]

\* A coroutine calls wait_for_slot().
WaitCall ==
    /\ w_pc = "idle"
    /\ w_calls < MaxWaitCalls
    /\ w_calls' = w_calls + 1
    /\ w_rec' = [first |-> Len(calls) + 1, sleeps |-> 0]
    /\ w_pc' = "acquire"
    /\ UNCHANGED <<limVars, crewVars, batchVars, thrVars, retryVars>>
    /\ UNCHANGED <<cacheVars, adapterVars, regVars>>

\* The loop test: one acquire(); True ends the call.
WaitAcquire ==
    /\ w_pc = "acquire"
    /\ LET now == clock
           kept == Prune(requests, now, time_window)
           ok == ~AtCapacity(kept, max_requests)
       IN  /\ requests' = IF ok THEN Append(kept, now) ELSE kept
           /\ calls' = Append(calls, [t |-> now, ok |-> ok,
                                      oldest |-> Oldest(requests)])
           /\ w_pc' = WaitLoop(ok)
    /\ UNCHANGED <<max_requests, time_window, clock, w_calls, w_rec>>
    /\ UNCHANGED <<crewVars, batchVars, thrVars, retryVars>>
    /\ UNCHANGED <<cacheVars, adapterVars, regVars>>

\* await asyncio.sleep(1)
WaitSleep ==
    /\ w_pc = "sleep"
    /\ w_rec.sleeps < MaxSleeps
    /\ clock' = clock + 1
    /\ w_rec' = [w_rec EXCEPT !.sleeps = @ + 1]
    /\ w_pc' = "acquire"
    /\ UNCHANGED <<max_requests, time_window, requests, calls, w_calls>>
    /\ UNCHANGED <<crewVars, batchVars, thrVars, retryVars>>
    /\ UNCHANGED <<cacheVars, adapterVars, regVars>>

-----------------------------------------------------------------------------
(* OpenRouterService._make_request_with_retry *)

\* The Retry-After header of a 429 answer: absent, a number of seconds, or a
\* value int() cannot parse (an HTTP date, a decimal fraction).
NoHeader == [present |-> FALSE, numeric |-> FALSE, value |-> 0]

RetryAfterHeaders ==
    {NoHeader,
     [present |-> TRUE, numeric |-> TRUE, value |-> 3],
     [present |-> TRUE, numeric |-> FALSE, value |-> 0]}

\* The answer to one client.post: a response with a status (and, for a 2xx,
\* a body that response.json() can or cannot parse) or an httpx.RequestError.
Response(status, retry_after, json_ok) ==
    [kind |-> "response", status |-> status, retry_after |-> retry_after,
     json_ok |-> json_ok]

RequestError ==
    [kind |-> "request_error", status |-> 0, retry_after |-> NoHeader,
     json_ok |-> FALSE]

Responses ==
    {Response(200, NoHeader, TRUE), Response(200, NoHeader, FALSE)}
    \cup {Response(st, NoHeader, FALSE) : st \in {400, 404, 500, 503}}
    \cup {Response(429, h, FALSE) : h \in RetryAfterHeaders}
    \cup {RequestError}

\* response.raise_for_status() passes
IsSuccess(status) == status >= 200 /\ status < 300

\* A classification that takes every error status for a server error.
IsServerErrorLoose(status) == status >= 400

\* elif e.response.status_code >= 500
IsServerError(status) == status >= 500

\* int(e.response.headers.get("Retry-After", retry_delay))
RetryAfter(header, delay) ==
    IF ~header.present THEN [ok |-> TRUE, value |-> delay]
    ELSE IF header.numeric THEN [ok |-> TRUE, value |-> header.value]
    ELSE [ok |-> FALSE, value |-> 0]

Return == [act |-> "return", sleep |-> 0, delay |-> 0, exc |-> NoExc]

RaiseNow(e) == [act |-> "raise", sleep |-> 0, delay |-> 0, exc |-> e]

SleepThenRetry(d, delay) ==
    [act |-> "sleep", sleep |-> d, delay |-> delay, exc |-> NoExc]

\* A backoff that is capped at 10.
BackoffOrRaiseCapped(att, delay, max, e) ==
    IF att < max
    THEN SleepThenRetry(delay, IF delay * 2 > 10 THEN 10 ELSE delay * 2)
    ELSE RaiseNow(e)

\* A last attempt whose failure is wrapped before it is raised.
BackoffOrRaiseWrapped(att, delay, max, e) ==
    IF att < max THEN SleepThenRetry(delay, delay * 2)
    ELSE RaiseNow([class |-> "RetriesExhausted", message |-> e.message,
                   step_index |-> 0, cause |-> e.class])

\* if attempt < max_retries: sleep(retry_delay); retry_delay *= 2  else: raise
BackoffOrRaise(att, delay, max, e) ==
    IF att < max THEN SleepThenRetry(delay, delay * 2) ELSE RaiseNow(e)

\* The body of one iteration of the for loop: the try block and its except
\* clauses.
Iteration(resp, att, delay, max) ==
    IF resp.kind = "request_error"
    THEN BackoffOrRaise(att, delay, max,
                        Exc("RequestError", "request error"))
    ELSE IF IsSuccess(resp.status)
    THEN (IF resp.json_ok THEN Return
          ELSE RaiseNow(Exc("JSONDecodeError", "response.json() failed")))
    ELSE IF resp.status = 429
    THEN LET ra == RetryAfter(resp.retry_after, delay)
         IN  IF ra.ok THEN SleepThenRetry(ra.value, delay * 2)
             ELSE RaiseNow(Exc("ValueError",
                               "invalid literal for int() with base 10"))
    ELSE IF IsServerError(resp.status)
    THEN BackoffOrRaise(att, delay, max,
                        Exc("HTTPStatusError", "server error"))
    ELSE RaiseNow(Exc("HTTPStatusError", "client error"))

RetryInit ==
    /\ max_retries \in 0..MaxRetriesBound
    /\ attempt = 0
    /\ retry_delay = 1
    /\ r_pc = "loop"
    /\ posts = <<>>
    /\ sleeps = <<>>
    /\ r_exc = NoExc

RetryIdle ==
    /\ max_retries = 0
    /\ attempt = 0
    /\ retry_delay = 1
    /\ r_pc = "off"
    /\ posts = <<>>
    /\ sleeps = <<>>
    /\ r_exc = NoExc

\* One pass of `for attempt in range(max_retries + 1)`: the post, the handling
\* of its answer and, when the range is used up, the raise after the loop.
Attempt(resp) ==
    /\ r_pc = "loop"
    /\ posts' = Append(posts, resp)
    /\ LET d == Iteration(resp, attempt, retry_delay, max_retries)
       IN  CASE d.act = "return" ->
                  /\ r_pc' = "returned"
                  /\ UNCHANGED <<attempt, retry_delay, sleeps, r_exc>>
             [] d.act = "raise" ->
                  /\ r_pc' = "raised"
                  /\ r_exc' = d.exc
                  /\ UNCHANGED <<attempt, retry_delay, sleeps>>
             [] d.act = "sleep" ->
                  /\ sleeps' = Append(sleeps, d.sleep)
                  /\ retry_delay' = d.delay
                  /\ IF attempt < max_retries
                     THEN /\ attempt' = attempt + 1
                          /\ r_pc' = "loop"
                          /\ r_exc' = r_exc
                     ELSE /\ attempt' = attempt
                          /\ r_pc' = "raised"
                          /\ r_exc' = Exc("Exception", "Failed after all attempts")
    /\ UNCHANGED max_retries
    /\ UNCHANGED <<crewVars, batchVars, limVars, thrVars, serviceVars>>

-----------------------------------------------------------------------------
(* BraveSearchCache *)

MaxCacheSize == 2

Queries == {"a", "b", "c"}

CacheTtls == {1, 3}

\* BraveSearchResponse(query, results, total, took, cached, error); total is
\* len(results); error "" is None.
SearchResponse(query, results, cached, error) ==
    [query |-> query, results |-> results, total |-> Len(results),
     cached |-> cached, error |-> error]

\* Two responses a caller can store for a query.
CacheValues(q) == {SearchResponse(q, <<>>, FALSE, ""),
                   SearchResponse(q, <<"hit 1">>, FALSE, "")}

\* _make_key: the SHA-256 hex digest of the query (distinct queries are taken
\* to have distinct digests).
MakeKey(query) == <<"sha256", query>>

\* self.cache[key] = (timestamp, value)
CacheEntry(key, timestamp, value) ==
    [key |-> key, timestamp |-> timestamp, value |-> value]

\* The position of key in the dict, 0 when absent.
CacheIndex(c, key) == First({i \in DOMAIN c : c[i].key = key})

\* del self.cache[key]
CacheDelete(c, i) == [j \in 1..(Len(c) - 1) |-> IF j < i THEN c[j] ELSE c[j + 1]]

\* A freshness test that still serves an entry whose age equals the TTL.
FreshInclusive(timestamp, now, ttl) == now - timestamp <= ttl

\* time.time() - timestamp < self.ttl
Fresh(timestamp, now, ttl) == now - timestamp < ttl

\* A get that refreshes the timestamp of the entry it serves.
CacheGetPromoting(c, query, now, ttl) ==
    LET i == CacheIndex(c, MakeKey(query))
    IN  IF i = 0 THEN [cache |-> c, ret |-> <<>>]
        ELSE IF Fresh(c[i].timestamp, now, ttl)
        THEN [cache |-> [c EXCEPT ![i].timestamp = now], ret |-> <<c[i].value>>]
        ELSE [cache |-> CacheDelete(c, i), ret |-> <<>>]

\* get(query): the value of a fresh entry; a stale entry is deleted; None
\* (<<>>) otherwise.
CacheGet(c, query, now, ttl) ==
    LET i == CacheIndex(c, MakeKey(query))
    IN  IF i = 0 THEN [cache |-> c, ret |-> <<>>]
        ELSE IF Fresh(c[i].timestamp, now, ttl)
        THEN [cache |-> c, ret |-> <<c[i].value>>]
        ELSE [cache |-> CacheDelete(c, i), ret |-> <<>>]

\* min(self.cache.items(), key=lambda x: x[1][0]): the first entry, in dict
\* order, among those with the smallest timestamp.
OldestIndex(c) ==
    First({i \in DOMAIN c : \A j \in DOMAIN c : c[i].timestamp <= c[j].timestamp})

\* self.cache[key] = (now, value): an existing key keeps its place.
CacheStore(c, key, now, value) ==
    LET i == CacheIndex(c, key)
    IN  IF i = 0 THEN Append(c, CacheEntry(key, now, value))
        ELSE [c EXCEPT ![i] = CacheEntry(key, now, value)]

\* A set that never evicts.
CacheSetNoEvict(c, query, value, now, max) ==
    [cache |-> CacheStore(c, MakeKey(query), now, value), exc |-> NoExc]

\* set(query, value): at len(self.cache) >= max_size the oldest entry is
\* deleted first; min() of an empty dict raises ValueError.
CacheSet(c, query, value, now, max) ==
    IF Len(c) >= max
    THEN IF c = <<>>
         THEN [cache |-> c,
               exc |-> Exc("ValueError", "min() arg is an empty sequence")]
         ELSE [cache |-> CacheStore(CacheDelete(c, OldestIndex(c)),
                                    MakeKey(query), now, value),
               exc |-> NoExc]
    ELSE [cache |-> CacheStore(c, MakeKey(query), now, value), exc |-> NoExc]

\* The calls of test_brave_search_cache, on a new cache.
Scenario == << <<"set", "a">>, <<"set", "b">>, <<"get", "a">>, <<"set", "c">> >>

ScenarioStep(n, op, query) ==
    IF n >= 0 /\ n < Len(Scenario) /\ Scenario[n + 1] = <<op, query>>
    THEN n + 1 ELSE -1

NoValue == SearchResponse("", <<>>, FALSE, "")

CacheOp(op, query, value, now, before, ret, exc) ==
    [op |-> op, query |-> query, value |-> value, now |-> now,
     before |-> before, ret |-> ret, exc |-> exc]

NoCacheOp == CacheOp("none", "", NoValue, 0, <<>>, <<>>, NoExc)

\* BraveSearchCache.__init__
CacheInit ==
    /\ cache_max_size \in 0..MaxCacheSize
    /\ cache_ttl \in CacheTtls
    /\ cache = <<>>
    /\ c_last = NoCacheOp
    /\ c_latest = [q \in Queries |-> <<>>]
    /\ c_scn = 0

CacheIdle ==
    /\ cache_max_size = 0
    /\ cache_ttl = 0
    /\ cache = <<>>
    /\ c_last = NoCacheOp
    /\ c_latest = [q \in Queries |-> <<>>]
    /\ c_scn = -1

\* cache.get(query)
GetCached(query) ==
    LET r == CacheGet(cache, query, clock, cache_ttl)
    IN  /\ cache' = r.cache
        /\ c_last' = CacheOp("get", query, NoValue, clock, cache, r.ret, NoExc)
        /\ c_scn' = ScenarioStep(c_scn, "get", query)
        /\ UNCHANGED <<cache_max_size, cache_ttl, c_latest>>
        /\ UNCHANGED <<crewVars, batchVars, limVars, thrVars, retryVars, adapterVars, regVars, waitVars>>

\* cache.set(query, value)
SetCached(query, value) ==
    LET r == CacheSet(cache, query, value, clock, cache_max_size)
    IN  /\ cache' = r.cache
        /\ c_last' = CacheOp("set", query, value, clock, cache, <<>>, r.exc)
        /\ c_latest' = IF r.exc = NoExc
                       THEN [c_latest EXCEPT ![query] = <<value>>]
                       ELSE c_latest
        /\ c_scn' = ScenarioStep(c_scn, "set", query)
        /\ UNCHANGED <<cache_max_size, cache_ttl>>
        /\ UNCHANGED <<crewVars, batchVars, limVars, thrVars, retryVars, adapterVars, regVars, waitVars>>

\* cache.clear()
ClearCache ==
    /\ cache' = <<>>
    /\ c_last' = CacheOp("clear", "", NoValue, clock, cache, <<>>, NoExc)
    /\ c_scn' = -1
    /\ UNCHANGED <<cache_max_size, cache_ttl, c_latest>>
    /\ UNCHANGED <<crewVars, batchVars, limVars, thrVars, retryVars, adapterVars, regVars, waitVars>>

-----------------------------------------------------------------------------
(* The adapters: generate_text, generate_image, search *)

MaxAdapterCalls == 2

\* max_wait of _wait_for_completion, in quarter seconds (300 s in the source)
MaxWait == 80

\* RateLimiter(..., time_window=60) in OpenRouterService.__init__
ServiceWindow == 60

\* poll_interval = 2, in quarter seconds
InitialPollInterval == 8

\* min(poll_interval * 1.5, 10), in quarter seconds
NextPollInterval(p) == IF 3 * p >= 80 THEN 40 ELSE (3 * p) \div 2

ApiKeys == {"", "your_openrouter_api_key_here", "sk-key"}

AdapterRetries == {0, 1}

\* temperature, in tenths
Temperatures == {-1, 0, 7, 20, 21}

MaxTokens == {0, 1, 8192, 8193}

Widths == {248, 256, 260, 2048, 2056}

Heights == {256, 300, 4096}

NumOutputs == {0, 1, 4, 5}

\* not self.api_key or self.api_key == "your_openrouter_api_key_here"
KeyMissing(key) == key = "" \/ key = "your_openrouter_api_key_here"

\* A request model that accepts any temperature.
ValidTextRequestAnyTemperature(temperature, max_tokens) ==
    max_tokens >= 1 /\ max_tokens <= 8192

\* OpenRouterRequest: temperature ge=0.0 le=2.0, max_tokens ge=1 le=8192
ValidTextRequest(temperature, max_tokens) ==
    /\ temperature >= 0 /\ temperature <= 20
    /\ max_tokens >= 1 /\ max_tokens <= 8192

\* ImageGenerationRequest: width, height ge=256 le=2048 and v % 8 == 0
ValidDimension(v) == v >= 256 /\ v <= 2048 /\ v % 8 = 0

\* ImageGenerationRequest(prompt, width, height, num_outputs)
ValidImageRequest(width, height, num_outputs) ==
    /\ ValidDimension(width)
    /\ ValidDimension(height)
    /\ num_outputs >= 1 /\ num_outputs <= 4

\* What a call hands back: the result object (success flag, payload as a
\* list, error with "" for None) or an exception that escaped the call.
Success(payload) ==
    [returned |-> TRUE, success |-> TRUE, payload |-> payload, error |-> "",
     cached |-> FALSE, exc |-> NoExc]

Failure(error) ==
    [returned |-> TRUE, success |-> FALSE, payload |-> <<>>, error |-> error,
     cached |-> FALSE, exc |-> NoExc]

Escaped(e) ==
    [returned |-> FALSE, success |-> FALSE, payload |-> <<>>, error |-> "",
     cached |-> FALSE, exc |-> e]

NoResult == Escaped(NoExc)

\* A generate_text without its except clause.
TextExceptReraise(e) == Escaped(e)

\* generate_text: except Exception as e: return {"success": False,
\* "error": str(e), "content": None}
TextExcept(e) == Failure(e.message)

\* generate_image: except Exception as e: return ImageGenerationResult(
\* success=False, error=str(e), model_used=...)
ImageExcept(e) == Failure(e.message)

\* search: except Exception as e: return BraveSearchResponse(results=[],
\* total=0, error=str(e))
SearchExcept(e) == Failure(e.message)

\* The JSON body of a 2xx answer to /chat/completions, as generate_text reads
\* it: OpenRouterResponse(**response) validates the fields, choices[0] needs a
\* choice, and the content of the message is a text, "" or null.
Body(valid, choices, content) ==
    [valid |-> valid, choices |-> choices, content |-> content]

Bodies == {Body(TRUE, 1, <<"generated text">>), Body(TRUE, 1, <<>>),
           Body(TRUE, 0, <<>>), Body(FALSE, 0, <<>>)}

\* generate_text from `parsed_response = OpenRouterResponse(**response)` on
ParseTextResponse(body) ==
    IF ~body.valid
    THEN TextExcept(Exc("ValidationError", "OpenRouterResponse: Field required"))
    ELSE IF body.choices = 0
    THEN TextExcept(Exc("IndexError", "list index out of range"))
    ELSE Success(body.content)

\* The answer to GET /predictions/{id}, as _wait_for_completion reads it:
\* an exception (HTTP status, request error, JSON or validation error), or a
\* prediction with its status, output (None, a str or a list) and error.
PollAnswer(kind, output, error) ==
    [kind |-> kind, output |-> output, error |-> error]

PollAnswers ==
    {PollAnswer("succeeded", <<"https://img/1.png">>, ""),
     PollAnswer("succeeded", <<"https://img/1.png", "https://img/2.png">>, ""),
     PollAnswer("succeeded", <<>>, ""),
     PollAnswer("failed", <<>>, "model error"),
     PollAnswer("failed", <<>>, ""),
     PollAnswer("starting", <<>>, ""),
     PollAnswer("processing", <<>>, ""),
     PollAnswer("canceled", <<>>, ""),
     PollAnswer("exception", <<>>, "")}

\* The answers to POST /predictions, as _create_prediction reads them.
CreateAnswers == {"created", "http_error", "request_error", "bad_body"}

\* A URL, as the sequence of its parts; `domain in r.url` is a substring test.
DocsUrl == <<"https://", "docs.", "python.org", "/3">>

BlogUrl == <<"https://", "blog.", "example.com", "/post">>

\* filter_domains: None, or a list of domains
NoDomains == [given |-> FALSE, domains |-> <<>>]

FilterDomains ==
    {NoDomains, [given |-> TRUE, domains |-> <<>>],
     [given |-> TRUE, domains |-> << <<"python.org">> >>]}

SearchQueries == {"a", "b"}

\* min_score, in halves: 0.0 (the default) and 1.5
MinScores == {0, 3}

\* BraveSearchResult(title, url, snippet, score, source), score in halves
SearchResult(url, score) == [url |-> url, score |-> score]

\* domain in r.url
Contains(url, domain) ==
    \E i \in 1..(Len(url) - Len(domain) + 1) :
        SubSeq(url, i, i + Len(domain) - 1) = domain

\* r.score = 1.0; if filter_domains: +1.0 on a match, else -0.5
Score(url, filter_domains) ==
    IF filter_domains.domains # <<>>
    THEN IF \E k \in DOMAIN filter_domains.domains :
               Contains(url, filter_domains.domains[k])
         THEN 2 + 2
         ELSE 2 - 1
    ELSE 2

\* list.sort(key=score, reverse=True) is stable: r goes behind every result
\* whose score is not smaller.
InsertByScore(sorted, r) ==
    LET n == Cardinality({i \in DOMAIN sorted : sorted[i].score >= r.score})
    IN  SubSeq(sorted, 1, n) \o <<r>> \o SubSeq(sorted, n + 1, Len(sorted))

RECURSIVE SortByScore(_)
SortByScore(rs) ==
    IF rs = <<>> THEN <<>>
    ELSE InsertByScore(SortByScore(SubSeq(rs, 1, Len(rs) - 1)), rs[Len(rs)])

\* _score_and_filter_results(results, filter_domains, min_score)
ScoreAndFilterResults(urls, filter_domains, min_score) ==
    LET scored == [i \in DOMAIN urls |->
                      SearchResult(urls[i], Score(urls[i], filter_domains))]
    IN  SortByScore(SelectSeq(scored, LAMBDA r : r.score >= min_score))

\* The answer to the search GET: an exception text, or the URLs of the web
\* results.
SearchAnswer(error, results) == [error |-> error, results |-> results]

SearchAnswers ==
    {SearchAnswer("", <<>>), SearchAnswer("", <<DocsUrl>>),
     SearchAnswer("", <<BlogUrl, DocsUrl>>),
     SearchAnswer("429 Too Many Requests", <<>>),
     SearchAnswer("500 Internal Server Error", <<>>),
     SearchAnswer("connection failed", <<>>),
     SearchAnswer("Expecting value", <<>>)}

CallInputs(temperature, max_tokens, width, height, num_outputs, query, filter_domains, min_score) ==
    [temperature |-> temperature, max_tokens |-> max_tokens, width |-> width,
     height |-> height, num_outputs |-> num_outputs, query |-> query,
     filter_domains |-> filter_domains, min_score |-> min_score]

NoInputs == CallInputs(0, 0, 0, 0, 0, "", NoDomains, 0)

NoLocals == [elapsed |-> 0, poll_interval |-> 0, status |-> ""]

\* What a call has done to self.rate_limiter.requests: the list when the call
\* was entered and the number of timestamps acquire() appended since.
Admission(before, recorded) == [before |-> before, recorded |-> recorded]

\* A service has been constructed and no call made on it yet.
AdapterStart(svc) ==
    /\ a_svc = svc
    /\ a_pc = "idle"
    /\ a_in = NoInputs
    /\ a_http = 0
    /\ a_loc = NoLocals
    /\ a_out = NoResult
    /\ a_calls = 0
    /\ a_adm = Admission(<<>>, 0)

AdapterIdle ==
    /\ api_key = ""
    /\ a_svc = "none"
    /\ a_pc = "off"
    /\ a_in = NoInputs
    /\ a_http = 0
    /\ a_loc = NoLocals
    /\ a_out = NoResult
    /\ a_calls = 0
    /\ a_adm = Admission(<<>>, 0)

\* What every call does on entry.
Enter(svc, in) ==
    /\ a_svc = svc
    /\ a_pc = "idle"
    /\ a_calls < MaxAdapterCalls
    /\ a_calls' = a_calls + 1
    /\ a_in' = in
    /\ a_adm' = Admission(requests, 0)
    /\ UNCHANGED <<api_key, a_svc>>

\* generate_text(messages, temperature=..., max_tokens=...): _check_api_key
GenerateText(temperature, max_tokens) ==
    /\ Enter("text", CallInputs(temperature, max_tokens, 0, 0, 0, "",
                                 NoDomains, 0))
    /\ a_http' = 0
    /\ a_loc' = NoLocals
    /\ IF KeyMissing(api_key)
       THEN /\ a_out' = TextExcept(Exc("ValueError",
                                       "OpenRouter API key not configured"))
            /\ a_pc' = "idle"
       ELSE /\ a_out' = NoResult
            /\ a_pc' = "slot"
    /\ attempt' = 0
    /\ retry_delay' = 1
    /\ r_pc' = "off"
    /\ posts' = <<>>
    /\ sleeps' = <<>>
    /\ r_exc' = NoExc
    /\ UNCHANGED max_retries
    /\ UNCHANGED <<crewVars, batchVars, limVars, thrVars, cacheVars, regVars, waitVars>>

\* await self.rate_limiter.wait_for_slot(): one acquire(); on False the
\* coroutine sleeps a second and asks again.  On True the request model is
\* built (and validated) and _make_request_with_retry starts.
WaitForSlot ==
    /\ a_pc = "slot"
    /\ LET kept == Prune(requests, clock, time_window)
       IN  IF AtCapacity(kept, max_requests)
           THEN /\ clock < MaxClock
                /\ requests' = kept
                /\ clock' = clock + 1
                /\ UNCHANGED <<a_pc, a_out, r_pc, a_adm>>
           ELSE /\ requests' = Append(kept, clock)
                /\ clock' = clock
                /\ a_adm' = [a_adm EXCEPT !.recorded = @ + 1]
                /\ IF ValidTextRequest(a_in.temperature, a_in.max_tokens)
                   THEN /\ a_pc' = "request"
                        /\ r_pc' = "loop"
                        /\ a_out' = a_out
                   ELSE /\ a_pc' = "idle"
                        /\ r_pc' = r_pc
                        /\ a_out' = TextExcept(Exc("ValidationError",
                                                   "OpenRouterRequest: out of range"))
    /\ UNCHANGED <<max_requests, time_window, calls>>
    /\ UNCHANGED <<max_retries, attempt, retry_delay, posts, sleeps, r_exc>>
    /\ UNCHANGED <<api_key, a_svc, a_in, a_http, a_loc, a_calls>>
    /\ UNCHANGED <<crewVars, batchVars, thrVars, cacheVars, regVars, waitVars>>

\* _make_request_with_retry has returned or raised: the response is parsed
\* and the result dict returned.
FinishText ==
    /\ a_pc = "request"
    /\ r_pc \in {"returned", "raised"}
    /\ IF r_pc = "raised"
       THEN a_out' = TextExcept(r_exc)
       ELSE \E body \in Bodies : a_out' = ParseTextResponse(body)
    /\ a_pc' = "idle"
    /\ UNCHANGED <<api_key, a_svc, a_in, a_http, a_loc, a_calls, a_adm>>
    /\ UNCHANGED <<crewVars, batchVars, limVars, thrVars, retryVars, cacheVars, regVars, waitVars>>

\* generate_image(prompt, width, height, num_outputs): the request model is
\* built (and validated) first.
GenerateImage(width, height, num_outputs) ==
    /\ Enter("image", CallInputs(0, 0, width, height, num_outputs, "",
                                  NoDomains, 0))
    /\ a_http' = 0
    /\ a_loc' = NoLocals
    /\ IF ValidImageRequest(width, height, num_outputs)
       THEN /\ a_out' = NoResult
            /\ a_pc' = "create"
       ELSE /\ a_out' = ImageExcept(Exc("ValidationError",
                                        "ImageGenerationRequest: invalid value"))
            /\ a_pc' = "idle"
    /\ UNCHANGED <<crewVars, batchVars, limVars, thrVars, retryVars, cacheVars, regVars, waitVars>>

\* _create_prediction: one POST; every exception is caught and None returned,
\* for which generate_image returns "Failed to create prediction".
CreatePrediction(answer) ==
    /\ a_pc = "create"
    /\ a_http' = a_http + 1
    /\ IF answer = "created"
       THEN /\ a_pc' = "poll"
            /\ a_loc' = [elapsed |-> 0, poll_interval |-> InitialPollInterval,
                         status |-> "starting"]
            /\ a_out' = a_out
       ELSE /\ a_pc' = "idle"
            /\ a_loc' = a_loc
            /\ a_out' = Failure("Failed to create prediction")
    /\ UNCHANGED <<api_key, a_svc, a_in, a_calls, a_adm>>
    /\ UNCHANGED <<crewVars, batchVars, limVars, thrVars, retryVars, cacheVars, regVars, waitVars>>

\* _wait_for_completion, one pass of the while loop: a GET and the handling
\* of its answer; generate_image then turns the dict into its result.
Poll(answer) ==
    /\ a_pc = "poll"
    /\ a_loc.elapsed < MaxWait
    /\ a_http' = a_http + 1
    /\ CASE answer.kind = "succeeded" ->
              /\ a_out' = Success(answer.output)
              /\ a_pc' = "idle"
              /\ a_loc' = [a_loc EXCEPT !.status = answer.kind]
         [] answer.kind = "failed" ->
              /\ a_out' = Failure(IF answer.error = "" THEN "Unknown error"
                                  ELSE answer.error)
              /\ a_pc' = "idle"
              /\ a_loc' = [a_loc EXCEPT !.status = answer.kind]
         [] answer.kind \in {"starting", "processing"} ->
              /\ a_loc' = [elapsed |-> a_loc.elapsed + a_loc.poll_interval,
                           poll_interval |-> NextPollInterval(a_loc.poll_interval),
                           status |-> answer.kind]
              /\ UNCHANGED <<a_out, a_pc>>
         [] OTHER ->
              /\ a_loc' = [a_loc EXCEPT !.elapsed = @ + a_loc.poll_interval,
                                        !.status = answer.kind]
              /\ UNCHANGED <<a_out, a_pc>>
    /\ UNCHANGED <<api_key, a_svc, a_in, a_calls, a_adm>>
    /\ UNCHANGED <<crewVars, batchVars, limVars, thrVars, retryVars, cacheVars, regVars, waitVars>>

\* A timeout reported with the text of a server failure that has no message.
PollTimeoutUnknown ==
    /\ a_pc = "poll"
    /\ a_loc.elapsed >= MaxWait
    /\ a_out' = Failure("Unknown error")
    /\ a_pc' = "idle"
    /\ UNCHANGED <<api_key, a_svc, a_in, a_http, a_loc, a_calls, a_adm>>
    /\ UNCHANGED <<crewVars, batchVars, limVars, thrVars, retryVars, cacheVars, regVars, waitVars>>

\* _wait_for_completion when time.time() - start_time >= max_wait
PollTimeout ==
    /\ a_pc = "poll"
    /\ a_loc.elapsed >= MaxWait
    /\ a_out' = Failure("Prediction timed out")
    /\ a_pc' = "idle"
    /\ UNCHANGED <<api_key, a_svc, a_in, a_http, a_loc, a_calls, a_adm>>
    /\ UNCHANGED <<crewVars, batchVars, limVars, thrVars, retryVars, cacheVars, regVars, waitVars>>

\* Time passes between two calls.
Pause ==
    /\ a_pc = "idle"
    /\ clock < MaxClock
    /\ clock' = clock + 1
    /\ UNCHANGED <<max_requests, time_window, requests, calls>>
    /\ UNCHANGED <<crewVars, batchVars, thrVars, retryVars, serviceVars>>

\* cached.cached = True on the object the cache holds
MarkCached(c, query) ==
    LET i == CacheIndex(c, MakeKey(query))
    IN  IF i = 0 THEN c ELSE [c EXCEPT ![i].value.cached = TRUE]

\* search(query, num_results, filter_domains, min_score): the cache is asked
\* first; on a miss one GET is made, the results scored, filtered and sorted,
\* the response built, stored with cache.set and returned; every exception
\* from the GET on is caught and returned as a response with error=str(e).
Search(query, answer, filter_domains, min_score) ==
    /\ Enter("search", CallInputs(0, 0, 0, 0, 0, query, filter_domains,
                                  min_score))
    /\ a_loc' = NoLocals
    /\ a_pc' = "idle"
    /\ LET got == CacheGet(cache, query, clock, cache_ttl)
       IN  /\ c_last' = CacheOp("search", query, NoValue, clock, cache,
                                got.ret, NoExc)
           /\ IF got.ret # <<>>
              THEN /\ a_http' = 0
                   /\ cache' = MarkCached(got.cache, query)
                   /\ a_out' = [Success(got.ret[1].results)
                                   EXCEPT !.cached = TRUE]
              ELSE /\ a_http' = 1
                   /\ IF answer.error # ""
                      THEN /\ cache' = got.cache
                           /\ a_out' = SearchExcept(Exc("Exception",
                                                        answer.error))
                      ELSE LET results == ScoreAndFilterResults(
                                   answer.results, filter_domains, min_score)
                               resp == SearchResponse(query, results, FALSE, "")
                               put == CacheSet(got.cache, query, resp, clock,
                                               cache_max_size)
                           IN  /\ cache' = put.cache
                               /\ a_out' = IF put.exc = NoExc
                                           THEN Success(results)
                                           ELSE SearchExcept(put.exc)
    /\ UNCHANGED <<cache_max_size, cache_ttl, c_latest, c_scn>>
    /\ UNCHANGED <<crewVars, batchVars, limVars, thrVars, retryVars, regVars, waitVars>>

-----------------------------------------------------------------------------
(* ServiceRegistry and the construction of the three services *)

Credentials == {"", "placeholder", "key"}

Endpoints == {"", "https://endpoint"}

ServiceNames == {"openrouter", "replicate", "brave"}

\* not credential or credential == "your_..._here"
Unconfigured(credential) == credential = "" \/ credential = "placeholder"

Built(instance) == [ok |-> TRUE, instance |-> <<instance>>, exc |-> NoExc]

NotBuilt(message) ==
    [ok |-> FALSE, instance |-> <<>>, exc |-> Exc("ValueError", message)]

Instance(credential, endpoint) ==
    [credential |-> credential, endpoint |-> endpoint]

\* An OpenRouterService that validates whatever the key is.
OpenRouterServiceStrict(cfg) ==
    IF Unconfigured(cfg.openrouter_api_key)
    THEN NotBuilt("OpenRouter API key not configured")
    ELSE IF cfg.openrouter_base_url = ""
    THEN NotBuilt("OpenRouter base URL not configured")
    ELSE Built(Instance(cfg.openrouter_api_key, cfg.openrouter_base_url))

\* OpenRouterService(config): _validate_configuration is called only when
\* the key is set and no placeholder; otherwise a warning is logged.
OpenRouterService(cfg) ==
    IF ~Unconfigured(cfg.openrouter_api_key)
    THEN IF cfg.openrouter_base_url = ""
         THEN NotBuilt("OpenRouter base URL not configured")
         ELSE Built(Instance(cfg.openrouter_api_key, cfg.openrouter_base_url))
    ELSE Built(Instance(cfg.openrouter_api_key, cfg.openrouter_base_url))

\* ReplicateService(config): _validate_configuration
ReplicateService(cfg) ==
    IF Unconfigured(cfg.replicate_api_token)
    THEN NotBuilt("Replicate API token not configured")
    ELSE IF cfg.image_model = ""
    THEN NotBuilt("Replicate model ID not configured")
    ELSE Built(Instance(cfg.replicate_api_token, cfg.image_model))

\* BraveSearchService(config): _validate_configuration
BraveSearchService(cfg) ==
    IF Unconfigured(cfg.brave_api_key)
    THEN NotBuilt("Brave API key not configured")
    ELSE IF cfg.brave_search_url = ""
    THEN NotBuilt("Brave search URL not configured")
    ELSE Built(Instance(cfg.brave_api_key, cfg.brave_search_url))

Construct(name, cfg) ==
    CASE name = "openrouter" -> OpenRouterService(cfg)
      [] name = "replicate" -> ReplicateService(cfg)
      [] name = "brave" -> BraveSearchService(cfg)

\* The fields of Config the services read.  image_model stands in for the
\* endpoint of the Replicate service (its base URL is fixed).
Configs ==
    [openrouter_api_key : Credentials, openrouter_base_url : Endpoints,
     replicate_api_token : Credentials, image_model : Endpoints,
     brave_api_key : Credentials, brave_search_url : Endpoints]

NoConfig ==
    [openrouter_api_key |-> "", openrouter_base_url |-> "",
     replicate_api_token |-> "", image_model |-> "",
     brave_api_key |-> "", brave_search_url |-> ""]

NoGetter == [name |-> "", exc |-> NoExc]

\* ServiceRegistry(config)
RegistryInit ==
    /\ config \in Configs
    /\ services = [n \in ServiceNames |-> <<>>]
    /\ reg_last = NoGetter

RegistryIdle ==
    /\ config = NoConfig
    /\ services = [n \in ServiceNames |-> <<>>]
    /\ reg_last = NoGetter

\* get_openrouter / get_replicate / get_brave: the service is constructed on
\* first use and kept; a ValueError of the constructor leaves the getter and
\* nothing is kept.
GetService(name) ==
    /\ IF services[name] # <<>>
       THEN /\ reg_last' = [name |-> name, exc |-> NoExc]
            /\ UNCHANGED services
       ELSE LET made == Construct(name, config)
            IN  /\ reg_last' = [name |-> name, exc |-> made.exc]
                /\ services' = [services EXCEPT ![name] = made.instance]
    /\ UNCHANGED config
    /\ UNCHANGED <<crewVars, batchVars, limVars, thrVars, retryVars, waitVars>>
    /\ UNCHANGED <<cacheVars, adapterVars>>

-----------------------------------------------------------------------------
(* Specifications *)

\* The orchestrator: create_blog_post calls on one crew.
Init == CrewInit /\ BatchIdle /\ LimIdle /\ ThrIdle /\ RetryIdle /\ CacheIdle
    /\ AdapterIdle /\ RegistryIdle /\ WaitIdle

Next ==
    \/ \E nc \in Notes : Call(nc)
    \/ Begin
    \/ Finish
    \/ Fail

Spec == Init /\ [][Next]_vars

\* The batch driver.
InitBatch == CrewInit /\ BatchInit /\ LimIdle /\ ThrIdle /\ RetryIdle /\ CacheIdle
    /\ AdapterIdle /\ RegistryIdle /\ WaitIdle

NextBatch == ProcessBatch

SpecBatch == InitBatch /\ [][NextBatch]_vars

\* One RateLimiter used from one event loop.
InitLimiter == CrewInit /\ BatchIdle /\ LimInit /\ ThrIdle /\ RetryIdle /\ CacheIdle
    /\ AdapterIdle /\ RegistryIdle /\ WaitIdle

NextLimiter ==
    \/ Acquire
    \/ Tick

SpecLimiter == InitLimiter /\ [][NextLimiter]_vars

\* One RateLimiter shared by threads.
InitThreads == CrewInit /\ BatchIdle /\ LimInit /\ ThrIdle /\ RetryIdle /\ CacheIdle
    /\ AdapterIdle /\ RegistryIdle /\ WaitIdle

NextThreads ==
    \/ \E t \in Threads : TPrune(t)
    \/ \E t \in Threads : TStore(t)
    \/ \E t \in Threads : TCheck(t)
    \/ \E t \in Threads : TAppend(t)
    \/ Tick

SpecThreads == InitThreads /\ [][NextThreads]_vars

\* _make_request_with_retry.
InitRetry == CrewInit /\ BatchIdle /\ LimIdle /\ ThrIdle /\ RetryInit /\ CacheIdle
    /\ AdapterIdle /\ RegistryIdle /\ WaitIdle

NextRetry == \E resp \in Responses : Attempt(resp)

SpecRetry == InitRetry /\ [][NextRetry]_vars

\* One BraveSearchCache.
InitCache ==
    CrewInit /\ BatchIdle /\ LimIdle /\ ThrIdle /\ RetryIdle /\ CacheInit
    /\ AdapterIdle /\ RegistryIdle /\ WaitIdle

NextCache ==
    \/ \E q \in Queries : GetCached(q)
    \/ \E q \in Queries : \E v \in CacheValues(q) : SetCached(q, v)
    \/ ClearCache
    \/ Tick

SpecCache == InitCache /\ [][NextCache]_vars

\* An OpenRouterService with its RateLimiter and retry loop.
TextInit ==
    /\ AdapterStart("text")
    /\ api_key \in ApiKeys
    /\ max_requests \in 0..MaxN
    /\ time_window = ServiceWindow
    /\ requests = <<>>
    /\ clock = 0
    /\ calls = <<>>
    /\ max_retries \in AdapterRetries
    /\ attempt = 0
    /\ retry_delay = 1
    /\ r_pc = "off"
    /\ posts = <<>>
    /\ sleeps = <<>>
    /\ r_exc = NoExc
    /\ CacheIdle

\* A ReplicateService.
ImageInit ==
    /\ AdapterStart("image")
    /\ api_key = ""
    /\ LimIdle /\ RetryIdle /\ CacheIdle

\* A BraveSearchService with its cache.
SearchInit ==
    /\ AdapterStart("search")
    /\ api_key = ""
    /\ LimIdle
    /\ max_retries \in AdapterRetries
    /\ attempt = 0
    /\ retry_delay = 1
    /\ r_pc = "off"
    /\ posts = <<>>
    /\ sleeps = <<>>
    /\ r_exc = NoExc
    /\ CacheInit

\* One adapter, called by one caller, one call at a time.
InitAdapters ==
    /\ CrewInit /\ BatchIdle /\ ThrIdle /\ RegistryIdle /\ WaitIdle
    /\ (TextInit \/ ImageInit \/ SearchInit)

NextAdapters ==
    \/ \E t \in Temperatures : \E n \in MaxTokens : GenerateText(t, n)
    \/ WaitForSlot
    \/ \E resp \in Responses : Attempt(resp)
    \/ FinishText
    \/ \E w \in Widths : \E h \in Heights : \E n \in NumOutputs :
          GenerateImage(w, h, n)
    \/ \E answer \in CreateAnswers : CreatePrediction(answer)
    \/ \E answer \in PollAnswers : Poll(answer)
    \/ PollTimeout
    \/ \E q \in SearchQueries : \E answer \in SearchAnswers :
          \E fd \in FilterDomains : \E ms \in MinScores :
             Search(q, answer, fd, ms)
    \/ Pause

SpecAdapters == InitAdapters /\ [][NextAdapters]_vars

\* One RateLimiter whose wait_for_slot callers the event loop keeps running.
InitWait ==
    /\ CrewInit /\ BatchIdle /\ LimInit /\ ThrIdle /\ RetryIdle /\ CacheIdle
    /\ AdapterIdle /\ RegistryIdle /\ WaitInit

NextWait ==
    \/ WaitCall
    \/ WaitAcquire
    \/ WaitSleep
    \/ Tick

SpecWait ==
    /\ InitWait /\ [][NextWait]_vars
    /\ WF_vars(WaitAcquire)
    /\ WF_vars(WaitSleep)

\* One ReplicateService whose calls the event loop keeps running: every GET
\* ends (the client has timeouts) and every sleep ends.
InitPoll ==
    CrewInit /\ BatchIdle /\ ThrIdle /\ RegistryIdle /\ WaitIdle /\ ImageInit

NextPoll ==
    \/ \E w \in Widths : \E h \in Heights : \E n \in NumOutputs :
          GenerateImage(w, h, n)
    \/ \E answer \in CreateAnswers : CreatePrediction(answer)
    \/ \E answer \in PollAnswers : Poll(answer)
    \/ PollTimeout

SpecPoll ==
    /\ InitPoll /\ [][NextPoll]_vars
    /\ WF_vars(\E answer \in PollAnswers : Poll(answer))
    /\ WF_vars(PollTimeout)

\* One ServiceRegistry.
InitRegistry ==
    /\ CrewInit /\ BatchIdle /\ LimIdle /\ ThrIdle /\ RetryIdle /\ CacheIdle
    /\ AdapterIdle /\ WaitIdle
    /\ RegistryInit

NextRegistry == \E name \in ServiceNames : GetService(name)

SpecRegistry == InitRegistry /\ [][NextRegistry]_vars

-----------------------------------------------------------------------------
(* Properties of the pipeline orchestrator *)

StepOf(k) == workflow_steps[k]

\* C1: when the work of step k raises during the first create_blog_post call
\* on a crew, the call ends with steps 1..k-1 completed, step k failed with
\* the error recorded, steps k+1..15 pending and never started, an exception
\* raised to the caller and no blog post returned.
C1_AbortAtStepK ==
    (runNo = 1 /\ thrown.step # 0) =>
        LET k == thrown.step IN
        /\ pc = "idle"
        /\ outcome.kind = "raised"
        /\ outcome.value = <<>>
        /\ Len(workflow_steps) = NumSteps
        /\ \A i \in DOMAIN workflow_steps :
              LET s == workflow_steps[i] IN
              /\ s.step_number < k => s.status = "completed"
              /\ s.step_number = k =>
                    /\ s.status = "failed"
                    /\ s.error_message = thrown.exc.message
                    /\ s.error_message # ""
              /\ s.step_number > k =>
                    /\ s.status = "pending"
                    /\ s.start_time = 0

C1_Witness ==
    /\ runNo = 1
    /\ thrown.step = 12
    /\ StepOf(11).status = "completed"
    /\ StepOf(12).status = "failed"
    /\ StepOf(13).status = "pending"

LegalTransitions == {<<"pending", "in_progress">>,
                     <<"in_progress", "completed">>,
                     <<"in_progress", "failed">>}

\* C2: during the first create_blog_post call on a crew every change of a
\* step's status is pending->in_progress, in_progress->completed or
\* in_progress->failed, and once a step is failed no step becomes in_progress.
C2_StatusTransitions ==
    [][ (runNo' = 1) =>
          \A i \in DOMAIN workflow_steps :
             workflow_steps[i].status # workflow_steps'[i].status =>
                /\ <<workflow_steps[i].status, workflow_steps'[i].status>>
                      \in LegalTransitions
                /\ workflow_steps'[i].status = "in_progress" =>
                      \A j \in DOMAIN workflow_steps :
                         workflow_steps[j].status # "failed" ]_vars

C2_Witness ==
    /\ runNo = 1
    /\ StepOf(1).status = "completed"
    /\ StepOf(2).status = "completed"
    /\ StepOf(3).status = "failed"

C4_PendingAtEntry ==
    pc = "enter" =>
        /\ Len(workflow_steps) = NumSteps
        /\ \A i \in DOMAIN workflow_steps :
              /\ workflow_steps[i].step_number = i
              /\ workflow_steps[i].name = StepNames[i]
              /\ workflow_steps[i].status = "pending"
              /\ workflow_steps[i].start_time = 0
              /\ workflow_steps[i].end_time = 0
              /\ workflow_steps[i].error_message = ""
              /\ workflow_steps[i].result = <<>>

\* The locals L with the local of step m replaced by v.
Mutated(L, m, v) == [L EXCEPT ![m] = v]

\* The locals L without anything bound by step n or a later step.
Before(L, n) == [i \in Steps |-> IF i >= n THEN <<>> ELSE L[i]]

\* C5: the arguments handed to step n are computed from the note and the
\* outputs of steps < n only: replacing the output of any step m >= n by
\* another value (or by nothing) gives the same arguments, and the result of
\* step n is a result of its work on those arguments.
C5_ForwardOnly ==
    \A n \in Steps :
        args[n] # <<>> =>
           /\ \A m \in n..NumSteps :
                 \A v \in {<<>>, <<"a different output">>} :
                    StepInputs(n, note, Mutated(locals, m, v)) = args[n][1]
           /\ StepInputs(n, note, Before(locals, n)) = args[n][1]
           /\ locals[n] # <<>> =>
                 \E o \in WorkOutcomes(n, StepInputs(n, note, Before(locals, n))) :
                    o.ok /\ o.val = locals[n]

C5_Witness ==
    /\ args[9] # <<>>
    /\ locals[10] # <<>>
    /\ locals[14] # <<>>

-----------------------------------------------------------------------------
(* Properties of the batch driver *)

\* C6: process_batch attempts every note file it found exactly once, in list
\* order, and reports each; a failing note never prevents the later ones.
C6_EveryFileAttempted ==
    b_pc \notin {"off", "start"} =>
        /\ attempted = files
        /\ Len(reports) = Len(files)
        /\ files # <<>> => b_pc = "done"

-----------------------------------------------------------------------------
(* Properties of the RateLimiter *)

\* C7: on a new RateLimiter with max_requests = N, of the first N+1 acquire()
\* calls made within the window of the first one exactly the first N return
\* True and the last returns False (N = 0: none is admitted); and an acquire()
\* made once the window has elapsed since the oldest retained request returns
\* True.
C7_Admission ==
    /\ \A k \in DOMAIN calls :
          (k <= max_requests + 1 /\ calls[k].t - calls[1].t < time_window) =>
             (calls[k].ok <=> k <= max_requests)
    /\ \A k \in DOMAIN calls :
          (calls[k].oldest >= 0 /\ calls[k].t - calls[k].oldest >= time_window) =>
             calls[k].ok

C7_Witness ==
    /\ max_requests = 2
    /\ Len(calls) = 4
    /\ calls[1].ok /\ calls[2].ok /\ ~calls[3].ok
    /\ calls[3].t - calls[1].t < time_window
    /\ calls[4].t - calls[4].oldest >= time_window
    /\ calls[4].ok

\* C8: under every interleaving of concurrent acquire() calls on one shared
\* RateLimiter the retained timestamps never exceed max_requests and no more
\* than max_requests calls are admitted within any window.
C8_NoOverAdmission ==
    /\ Len(requests) <= max_requests
    /\ \A i \in DOMAIN admitted :
          Cardinality({j \in DOMAIN admitted :
                          /\ admitted[j] >= admitted[i]
                          /\ admitted[j] - admitted[i] < time_window})
             <= max_requests

-----------------------------------------------------------------------------
(* Properties of the retry loop *)

Transient(resp) ==
    \/ resp.kind = "request_error"
    \/ resp.status = 429
    \/ resp.status >= 500

ClientError(resp) ==
    /\ resp.kind = "response"
    /\ resp.status >= 400
    /\ resp.status < 500
    /\ resp.status # 429

\* C9: when every attempt fails with a transient failure (5xx, request error
\* or 429), the post is issued exactly max_retries + 1 times and then a
\* failure is propagated: never more attempts, never fewer.
C9_ExactlyMaxRetriesPlusOne ==
    /\ Len(posts) <= max_retries + 1
    /\ (r_pc \in {"returned", "raised"} /\ \A i \in DOMAIN posts : Transient(posts[i])) =>
          /\ r_pc = "raised"
          /\ Len(posts) = max_retries + 1

\* C10: an attempt that fails with a 4xx status other than 429 is the last
\* one: the failure is propagated at once, with no sleep after it and no
\* further attempt; a 4xx on the first attempt means exactly one attempt.
C10_ClientErrorNotRetried ==
    \A i \in DOMAIN posts :
        ClientError(posts[i]) =>
           /\ i = Len(posts)
           /\ r_pc = "raised"
           /\ r_exc.class = "HTTPStatusError"
           /\ Len(sleeps) = i - 1

C10_Witness ==
    /\ max_retries = 3
    /\ Len(posts) = 2
    /\ posts[1].status = 503
    /\ posts[2].status = 404
    /\ r_pc = "raised"
    /\ sleeps = <<1>>

-----------------------------------------------------------------------------
(* Properties of the BraveSearchCache *)

CacheKeys(c) == {c[i].key : i \in DOMAIN c}

\* C11: get(q) returns the value stored by the latest set(q, v) exactly when
\* an entry for q exists and now - insertion_time < ttl, and then leaves the
\* cache as it was; otherwise it returns a miss, and when the entry exists but
\* is stale the get removes that entry (and no other) from the cache.
C11_GetFreshOrMiss ==
    c_last.op = "get" =>
        LET q == c_last.query
            before == c_last.before
            i == CacheIndex(before, MakeKey(q))
            hit == i # 0 /\ c_last.now - before[i].timestamp < cache_ttl
        IN  /\ hit => /\ c_last.ret # <<>>
                      /\ c_last.ret = c_latest[q]
                      /\ cache = before
            /\ ~hit => c_last.ret = <<>>
            /\ i = 0 => cache = before
            /\ (i # 0 /\ ~hit) =>
                  /\ MakeKey(q) \notin CacheKeys(cache)
                  /\ cache = CacheDelete(before, i)

C11_Witness ==
    /\ c_last.op = "get"
    /\ c_last.ret = <<>>
    /\ \E i \in DOMAIN c_last.before :
          /\ c_last.before[i].key = MakeKey(c_last.query)
          /\ c_last.now - c_last.before[i].timestamp >= cache_ttl
    /\ MakeKey(c_last.query) \notin CacheKeys(cache)
    /\ Len(cache) = 1

\* C12: a set that inserts a new key into a cache holding max_size entries
\* evicts exactly one entry, one with the oldest insertion time, and appends
\* the new entry; a get that serves an entry leaves the cache (timestamps and
\* order) unchanged; so with max_size = 2 the calls set(a), set(b), get(a),
\* set(c) on a new cache leave exactly b and c.
C12_EvictsOldest ==
    /\ ( /\ c_last.op = "set"
         /\ c_last.exc = NoExc
         /\ MakeKey(c_last.query) \notin CacheKeys(c_last.before)
         /\ Len(c_last.before) = cache_max_size ) =>
          \E i \in DOMAIN c_last.before :
             /\ \A j \in DOMAIN c_last.before :
                   c_last.before[i].timestamp <= c_last.before[j].timestamp
             /\ cache = Append(CacheDelete(c_last.before, i),
                               CacheEntry(MakeKey(c_last.query), c_last.now,
                                          c_last.value))
    /\ (c_last.op = "get" /\ c_last.ret # <<>>) => cache = c_last.before
    /\ (cache_max_size = 2 /\ c_scn = Len(Scenario)) =>
          CacheKeys(cache) = {MakeKey("b"), MakeKey("c")}

C12_Witness ==
    /\ cache_max_size = 2
    /\ c_scn = Len(Scenario)
    /\ c_last.op = "set"
    /\ CacheKeys(c_last.before) = {MakeKey("a"), MakeKey("b")}
    /\ CacheKeys(cache) = {MakeKey("b"), MakeKey("c")}

\* C13: after any sequence of set, get and clear the cache holds at most
\* max_size entries (fresh or stale), one per key.
C13_SizeBound ==
    /\ Len(cache) <= cache_max_size
    /\ Cardinality(CacheKeys(cache)) = Len(cache)

C13_Witness ==
    /\ cache_max_size = 2
    /\ c_last.op = "set"
    /\ Len(c_last.before) = 2
    /\ Len(cache) = 2
    /\ \E i \in DOMAIN cache : clock - cache[i].timestamp >= cache_ttl

-----------------------------------------------------------------------------
(* Properties of the adapters *)

\* HTTP requests issued by the current (or last) call.
HttpRequests == IF a_svc = "text" THEN Len(posts) ELSE a_http

CallEnded == a_calls > 0 /\ a_pc = "idle"

C15_ExactlyOne ==
    (CallEnded /\ a_out.returned) =>
        /\ a_out.success =>
              /\ a_out.error = ""
              /\ a_svc \in {"text", "image"} => a_out.payload # <<>>
        /\ ~a_out.success =>
              /\ a_out.error # ""
              /\ a_out.payload = <<>>

-----------------------------------------------------------------------------
(* Properties of the construction of the services *)

-----------------------------------------------------------------------------
(* Properties of the pipeline's result *)

\* C18: for a valid note whose role workers all return (the analysis being a
\* JSON object), the first create_blog_post call on a crew completes all 15
\* steps and returns the final artifact.
C18_CompletesAllSteps ==
    ( /\ runNo = 1
      /\ pc = "idle"
      /\ NoteValid(note)
      /\ thrown.exc \notin WorkerErrors
      /\ locals[2] # <<>>
      /\ locals[2][1].isdict ) =>
        /\ outcome.kind = "returned"
        /\ outcome.value # <<>>
        /\ \A i \in DOMAIN workflow_steps :
              workflow_steps[i].status = "completed"

-----------------------------------------------------------------------------
(* Properties of the backoff *)

ServerOrNetworkError(resp) ==
    \/ resp.kind = "request_error"
    \/ resp.kind = "response" /\ resp.status >= 500

\* C19 (as claimed): the wait that follows a server error or a network error
\* never exceeds the maximum delay (10 units in the specification's example),
\* however many retries are configured.
C19_BackoffCapped ==
    \A i \in DOMAIN sleeps :
        ServerOrNetworkError(posts[i]) => sleeps[i] <= 10

\* C19 (amended): the wait that follows a server error or a network error is
\* the current backoff, which starts at 1 and is doubled after every wait of
\* the loop (the waits after a 429 included); there is no cap: the wait after
\* the i-th failed attempt is 2^(i-1).
C19_BackoffDoubles ==
    /\ Len(sleeps) <= Len(posts)
    /\ retry_delay = 2 ^ Len(sleeps)
    /\ \A i \in DOMAIN sleeps :
          ServerOrNetworkError(posts[i]) => sleeps[i] = 2 ^ (i - 1)

C19_Witness ==
    /\ max_retries = 5
    /\ sleeps = <<1, 2, 4, 8, 16>>
    /\ \A i \in DOMAIN sleeps : ServerOrNetworkError(posts[i])
    /\ r_pc = "loop"

Exhausted ==
    /\ r_pc = "raised"
    /\ Len(posts) = max_retries + 1
    /\ \A i \in DOMAIN posts : Transient(posts[i])

LastPost == posts[Len(posts)]

\* C20 (as claimed): when all max_retries + 1 attempts failed with transient
\* failures, the error propagated is an exhausted-retries error that wraps
\* the failure of the last attempt, of whichever kind that was.
C20_WrapsLastFailure ==
    Exhausted =>
        /\ r_exc.cause # ""
        /\ r_exc.cause = (IF LastPost.kind = "request_error"
                          THEN "RequestError" ELSE "HTTPStatusError")

\* C20 (amended): when all max_retries + 1 attempts failed with transient
\* failures, a last attempt that failed with a 5xx or a network error has
\* that very exception re-raised, unwrapped; a last attempt answered 429 is
\* followed by one more wait and then by a plain Exception("Failed after N
\* attempts") that carries no cause (or, when its Retry-After cannot be read
\* as an integer, by the ValueError of int()).
C20_PropagatesUnwrapped ==
    Exhausted =>
        /\ r_exc.cause = ""
        /\ (LastPost.kind = "request_error") =>
              /\ r_exc = Exc("RequestError", "request error")
              /\ Len(sleeps) = max_retries
        /\ (LastPost.kind = "response" /\ LastPost.status >= 500) =>
              /\ r_exc = Exc("HTTPStatusError", "server error")
              /\ Len(sleeps) = max_retries
        /\ (LastPost.kind = "response" /\ LastPost.status = 429) =>
              IF LastPost.retry_after.present /\ ~LastPost.retry_after.numeric
              THEN /\ r_exc.class = "ValueError"
                   /\ Len(sleeps) = max_retries
              ELSE /\ r_exc = Exc("Exception", "Failed after all attempts")
                   /\ Len(sleeps) = max_retries + 1

C20_Witness ==
    /\ max_retries = 1
    /\ Len(posts) = 2
    /\ posts[1].status = 503
    /\ posts[2].status = 429
    /\ r_pc = "raised"
    /\ r_exc.class = "Exception"
    /\ sleeps = <<1, 2>>

-----------------------------------------------------------------------------
(* Properties of the resilience steps inside the adapters *)

\* C21 (as claimed): every HTTP attempt of a generate_text call, the first and
\* each retry, has its own rate-limiter admission: at any point of a call that
\* has issued a request, the number of timestamps the call has added to
\* rate_limiter.requests equals the number of requests it has issued.
C21_AdmissionPerAttempt ==
    (a_svc = "text" /\ a_calls > 0 /\ Len(posts) > 0) =>
        a_adm.recorded = Len(posts)

\* The failures of the search GET that the retry policy calls transient.
TransientErrors ==
    {"429 Too Many Requests", "500 Internal Server Error", "connection failed"}

\* C22 (as claimed): a search call that goes to the network has obtained a
\* rate-limiter admission first, and it returns a transient failure (429, 5xx,
\* network error) only after the retries are used up, that is after
\* max_retries + 1 requests.
C22_SearchResilience ==
    (a_svc = "search" /\ CallEnded /\ a_http > 0) =>
        /\ a_adm.recorded > 0
        /\ (~a_out.success /\ a_out.error \in TransientErrors) =>
              a_http = max_retries + 1

\* The score the claim gives a URL, in halves; a filter is given when the
\* list holds a domain.
ClaimedScore(url, filter_domains) ==
    IF filter_domains.domains = <<>> THEN 2
    ELSE IF \E k \in DOMAIN filter_domains.domains :
               Contains(url, filter_domains.domains[k])
         THEN 4
         ELSE 1

\* C23 (as claimed): every error-free response of search(query, num_results,
\* filter_domains, min_score), fetched or cached, holds only results with
\* score >= min_score of that call, in descending score order, each scored
\* 1.0, +1.0 when a given filter domain matches its URL, -0.5 when none does.
C23_ScoredFilteredSorted ==
    (a_svc = "search" /\ CallEnded /\ a_out.success) =>
        LET rs == a_out.payload
        IN  /\ \A i \in DOMAIN rs : rs[i].score >= a_in.min_score
            /\ \A i, j \in DOMAIN rs : i < j => rs[i].score >= rs[j].score
            /\ \A i \in DOMAIN rs :
                  rs[i].score = ClaimedScore(rs[i].url, a_in.filter_domains)

\* C24 (as claimed): a search call that finds a valid entry issues no HTTP
\* request and leaves every stored value as it was inserted; a call whose
\* fetch fails stores nothing: the entries it leaves were all there before.
C24_CacheFrame ==
    (a_svc = "search" /\ CallEnded /\ c_last.op = "search") =>
        /\ c_last.ret # <<>> =>
              /\ a_http = 0
              /\ cache = c_last.before
        /\ (a_http > 0 /\ ~a_out.success) =>
              Range(cache) \subseteq Range(c_last.before)

\* C25 (as claimed): set evicts only when storing would make the cache exceed
\* max_size: a set of a new key below max_size only adds that key, and a set
\* that overwrites a key already present, also in a cache holding max_size
\* entries, removes no other key and leaves the number of entries unchanged.
C25_EvictsOnlyOnExceed ==
    (c_last.op = "set" /\ c_last.exc = NoExc) =>
        LET key == MakeKey(c_last.query)
            before == c_last.before
        IN  /\ (key \notin CacheKeys(before) /\ Len(before) < cache_max_size) =>
                  CacheKeys(cache) = CacheKeys(before) \cup {key}
            /\ key \in CacheKeys(before) =>
                  /\ CacheKeys(cache) = CacheKeys(before)
                  /\ Len(cache) = Len(before)

-----------------------------------------------------------------------------
(* Properties of the image poll loop *)

\* The errors _wait_for_completion returns for a prediction that failed.
ServerFailures == {"Unknown error"} \cup
    {a.error : a \in {b \in PollAnswers : b.kind = "failed" /\ b.error # ""}}

\* A generate_image call that got as far as _wait_for_completion.
Polled == a_svc = "image" /\ a_loc.poll_interval > 0

\* C26: _wait_for_completion always ends, whatever the polls answer: with a
\* success when a poll reports succeeded, with the server's failure when a
\* poll reports failed, and otherwise, once max_wait has elapsed (and before
\* one more capped poll interval has), with a timeout failure whose error is
\* none of the server-reported failures.
C26_PollTerminates ==
    /\ [](Polled =>
            /\ a_pc = "poll" => a_loc.status \notin {"succeeded", "failed"}
            /\ a_pc = "idle" =>
                 /\ a_loc.status = "succeeded" <=> a_out.success
                 /\ a_loc.status = "failed" =>
                       /\ a_out.error \in ServerFailures
                       /\ a_loc.elapsed < MaxWait
                 /\ a_loc.status \notin {"succeeded", "failed"} =>
                       /\ ~a_out.success
                       /\ a_out.error \notin ServerFailures
                       /\ a_out.error # ""
                       /\ a_loc.elapsed >= MaxWait
                       /\ a_loc.elapsed < MaxWait + 40)
    /\ (a_pc = "poll") ~> (a_pc = "idle")

C26_Witness ==
    /\ Polled
    /\ a_pc = "idle"
    /\ a_loc.status = "canceled"
    /\ a_http >= 5
    /\ a_out.error = "Prediction timed out"

-----------------------------------------------------------------------------
(* Properties of the steps' work *)

\* The titles the code substitutes: analyze_notes for a response that is no
\* JSON, create_blog_post for an analysis without the key "title".
GenericTitles == {"Generated Title", "Generated Blog Post Title"}

\* C27 (as claimed): when content analysis yields no usable title the run
\* fails there: step 3 never binds a generic default title, and an analysis
\* without a title is followed by no completed title step.
C27_MissingTitleRaises ==
    /\ locals[3] # <<>> => locals[3][1] \notin GenericTitles
    /\ (locals[2] # <<>> /\ locals[2][1].isdict /\ locals[2][1].title = <<>>) =>
          locals[3] = <<>>

-----------------------------------------------------------------------------
(* Properties of RateLimiter.wait_for_slot *)

\* The acquire() calls the current (or last) wait_for_slot call has made.
OwnAcquires == w_rec.first..Len(calls)

C29_OneEntryPerSubheading ==
    locals[6] # <<>> =>
        Cardinality(DOMAIN locals[6][1]) = Len(locals[5][1]) + 1

\* C29 (amended): _coordinate_research returns a dict whose keys are
\* "main_topic" and the distinct subheadings; every subheading's entry is the
\* research obtained for it, "main_topic" holds the main-topic research unless
\* a subheading has that name, and the dict has len(subheadings) + 1 entries
\* exactly when the subheadings are pairwise distinct and none is "main_topic".
C29_OneEntryPerDistinctSubheading ==
    locals[6] # <<>> =>
        LET research_data == locals[6][1]
            title == locals[3][1]
            subheadings == locals[5][1]
            distinct == /\ Cardinality(Range(subheadings)) = Len(subheadings)
                        /\ "main_topic" \notin Range(subheadings)
        IN  /\ DOMAIN research_data = {"main_topic"} \cup Range(subheadings)
            /\ \A sub \in Range(subheadings) :
                  research_data[sub] = <<"research_subheading", sub, title>>
            /\ "main_topic" \notin Range(subheadings) =>
                  research_data["main_topic"] = <<"research_topic", title, "">>
            /\ distinct <=>
                  Cardinality(DOMAIN research_data) = Len(subheadings) + 1

C29_Witness ==
    /\ locals[6] # <<>>
    /\ locals[5][1] = <<"Basics", "Basics">>
    /\ DOMAIN locals[6][1] = {"main_topic", "Basics"}

\* C30 (as claimed): a generate_text call that ends without having issued an
\* HTTP request (missing or placeholder key, parameters that fail validation)
\* leaves rate_limiter.requests as it was when the call was entered.
C30_NoSlotWithoutRequest ==
    (a_svc = "text" /\ CallEnded /\ Len(posts) = 0) =>
        /\ requests = a_adm.before
        /\ a_adm.recorded = 0

====
